---- MODULE Spec2Model ----
(***************************************************************************)
(* The SLA aggregator of src/sla/counter.py: the SLAClient state           *)
(* (prev_success, prev_fail, window), the four published metrics and the  *)
(* statements of main's scrape loop.                                       *)
(*                                                                         *)
(* Python floats are modelled as tuples <<n, d, k>>, the double nearest    *)
(* to (n / d) * 2^(100 * k), or <<n, d, k, u>>, the double u units in the  *)
(* last place above it, with inf as <<1, 0, 0>>, -inf as <<-1, 0, 0>> and  *)
(* nan as <<0, 0, 0>>; an absent Optional value is None.                   *)
(***************************************************************************)
EXTENDS Integers, Sequences, FiniteSets, TLC

\* ---------------------------------------------------------------- bounds
\* Largest raw counter total a scrape can report.
MaxTotal == 2
\* Number of loop cycles that are started.
MaxCycles == 3
\* Largest configured SLA_WINDOW_SIZE.
MaxWindow == 3
\* Largest fetch duration (in whole time units).
MaxDuration == 1
\* Number of ratios appended to a window on its own.
MaxAppends == 4

\* ---------------------------------------------------------------- floats
None == <<>>

Abs(n) == IF n < 0 THEN -n ELSE n

RECURSIVE GCD(_, _)
GCD(a, b) == IF b = 0 THEN a ELSE GCD(b, a % b)

Sign(n) == IF n > 0 THEN 1 ELSE IF n < 0 THEN -1 ELSE 0

\* A float is <<n, d, k>> or <<n, d, k, u>>, n / d in lowest terms. For
\* d > 0, <<n, d, k>> is the double nearest to (n / d) * 2^(100 * k), ties
\* to even: for a dyadic n / d (every total, and every sum and difference of
\* totals) that double is the number itself, and the quotient of two such
\* floats (1/3) is the double nearest to n / d. <<n, d, k, u>>, u # 0, is the
\* double z that lies u units in the last place of z above <<n, d, k>>: the
\* sum of rounded quotients 1/2 + 2/3 + 2/3 is <<11, 6, 0, -1>>,
\* 1.833333333333333, one unit below the double nearest to 11/6. 0.0 is
\* <<0, 1, 0>>, and n / 0 is inf, -inf or nan. The bounds keep |n| and d of
\* every float below 2^20, so of two finite floats with different k the
\* smaller is less than 2^-53 of the larger.
Scaled(n, d, k) ==
    IF d = 0 THEN <<Sign(n), 0, 0>>
    ELSE IF n = 0 THEN <<0, 1, 0>>
    ELSE LET g == GCD(Abs(n), d) IN <<n \div g, d \div g, k>>

\* The float n/d.
Float(n, d) == Scaled(n, d, 0)

Zero == Float(0, 1)
One == Float(1, 1)
\* float('1e999'), float('-1e999') and the nan that inf - inf and inf / inf
\* give.
Inf == Float(1, 0)
NegInf == Float(-1, 0)
NaN == Float(0, 0)
\* float('1267650600228229401496703205376'), 2.0 ** 100: a total so large
\* that adding or subtracting a total of the ordinary size is lost in the
\* rounding to 53 significant bits.
Huge == Scaled(1, 1, 1)

\* A float that is neither an infinity nor nan.
Finite(x) == x[2] # 0

\* The units in the last place by which a float lies above the double
\* nearest to its n / d.
Ulps(x) == IF Len(x) = 4 THEN x[4] ELSE 0

\* -x.
Negated(x) ==
    IF Len(x) = 4 THEN <<-x[1], x[2], x[3], -x[4]>> ELSE <<-x[1], x[2], x[3]>>

RECURSIVE Pow2(_)
\* 2^i, i >= 0.
Pow2(i) == IF i = 0 THEN 1 ELSE 2 * Pow2(i - 1)

\* The denominators of the dyadic fractions.
Dyadics == {Pow2(i) : i \in 0..20}

\* A finite float that is its n / d exactly.
Dyadic(x) == Len(x) = 3 /\ x[2] \in Dyadics

RECURSIVE Exponent(_, _)
\* The exponent p of a / b > 0: 2^p <= a / b < 2^(p + 1).
Exponent(a, b) ==
    IF a >= 2 * b THEN Exponent(a, 2 * b) + 1
    ELSE IF a < b THEN Exponent(2 * a, b) - 1
    ELSE 0

\* a / b > 0, of exponent p, is a power of two.
PowerOfTwoAt(a, b, p) ==
    IF p >= 0 THEN a = b * Pow2(p) ELSE a * Pow2(-p) = b

\* a / b > 0 is a power of two.
PowerOfTwo(a, b) == PowerOfTwoAt(a, b, Exponent(a, b))

RECURSIVE MulPow2Mod(_, _, _)
\* (a * 2^s) mod m for a >= 0, s >= 0.
MulPow2Mod(a, s, m) ==
    IF s = 0 THEN a % m
    ELSE IF s >= 10 THEN MulPow2Mod(((a % m) * 1024) % m, s - 10, m)
    ELSE MulPow2Mod(((a % m) * 2) % m, s - 1, m)

\* The integer nearest to tn / td, td > 0, and of two equally near the one
\* that has the parity of odd (ties to even).
Nearest(tn, td, odd) ==
    IF 2 * (tn % td) < td THEN tn \div td
    ELSE IF 2 * (tn % td) > td THEN (tn \div td) + 1
    ELSE (tn \div td) + ((odd + (tn \div td)) % 2)

\* A double in full: <<a, b, c, s>> is the number (a + c * 2^-s) / b, a
\* multiple of 2^-s, the unit in its last place (a, b > 0).
\* Round(a, b, e, S) is the double nearest to (a + e * 2^-S) / b, ties to
\* even, for a number that differs from a / b by a few units in the last
\* place at most: with p its exponent and s = 52 - p, the number is
\* (F + t) * 2^-s for the integer F = floor(a * 2^s / b), of which only the
\* parity is computed, and the small fraction t = tn / td, where
\* rho = (a * 2^s) mod b; the double is (F + j) * 2^-s for the integer j
\* nearest to t.
RoundWith(a, b, e, S, s, rho) ==
    <<a, b,
      Nearest(IF e = 0 THEN rho
              ELSE IF s >= S THEN rho + e * Pow2(s - S)
              ELSE rho * Pow2(S - s) + e,
              IF e = 0 \/ s >= S THEN b ELSE b * Pow2(S - s),
              (MulPow2Mod(a, s, 2 * b) - rho) \div b) * b - rho,
      s>>

RoundAt(a, b, e, S, s) == RoundWith(a, b, e, S, s, MulPow2Mod(a, s, b))

Round(a, b, e, S) ==
    RoundAt(a, b, e, S,
            52 - Exponent(a, b)
               + (IF PowerOfTwo(a, b) /\ e < 0 THEN 1 ELSE 0))

\* The double Ulps(x) units in the last place above r, the double in full
\* nearest to the n / d of x: below a power of two the unit is half of the
\* unit above it.
UlpsAbove(x, r) ==
    IF Len(x) = 3 THEN r
    ELSE IF PowerOfTwo(x[1], x[2]) /\ x[4] < 0
         THEN <<x[1], x[2], x[4] * x[2], r[4] + 1>>
    ELSE <<x[1], x[2], r[3] + x[4] * x[2], r[4]>>

\* The positive finite float x, its scale k set aside, in full.
InFull(x) == UlpsAbove(x, Round(x[1], x[2], 0, 0))

\* The float n / d (in lowest terms) of scale k that lies u units in the
\* last place above the double nearest to n / d.
WithUlps(n, d, k, u) == IF u = 0 THEN <<n, d, k>> ELSE <<n, d, k, u>>

\* The float of scale k that the double (n + c * 2^-s) / d is, r the double
\* in full nearest to n / d.
UlpsFrom(n, d, k, c, s, r) ==
    WithUlps(n, d, k, IF s = r[4] THEN (c - r[3]) \div d ELSE c \div d)

\* The float of scale k that the double z in full is, g the greatest common
\* divisor of its a and b.
Reduced(z, k, g) ==
    UlpsFrom(z[1] \div g, z[2] \div g, k, z[3] \div g, z[4],
             Round(z[1] \div g, z[2] \div g, 0, 0))

\* The float, of scale k, that the double z in full is.
AsFloat(z, k) == Reduced(z, k, GCD(z[1], z[2]))

\* The double nearest to (a + e * 2^-S) / b * 2^(100 * k), b > 0, of either
\* sign. When a = 0 and e # 0 the operands cancel but for their last places:
\* the difference is no float of this representation, and no addition of
\* the program makes it (the floats that are not dyadic are the ratios in
\* the window, none negative).
Rounded(a, b, e, S, k) ==
    IF a = 0 THEN CHOOSE z \in {Zero} : e = 0
    ELSE IF a > 0 THEN AsFloat(Round(a, b, e, S), k)
    ELSE Negated(AsFloat(Round(-a, b, -e, S), k))

\* -z for a double z in full.
Mirrored(z) == <<-z[1], z[2], -z[3], z[4]>>

\* The positive or negative finite float x in full, a of either sign.
Signed(x) ==
    IF x[1] > 0 THEN InFull(x) ELSE Mirrored(InFull(Negated(x)))

\* The sum of the doubles in full X and Y, over the common denominator D,
\* rounded; k is the scale of both.
SumOver(X, Y, D, k) ==
    Rounded(X[1] * (D \div X[2]) + Y[1] * (D \div Y[2]), D,
            X[3] * (D \div X[2])
                 * Pow2((IF X[4] > Y[4] THEN X[4] ELSE Y[4]) - X[4])
              + Y[3] * (D \div Y[2])
                     * Pow2((IF X[4] > Y[4] THEN X[4] ELSE Y[4]) - Y[4]),
            IF X[4] > Y[4] THEN X[4] ELSE Y[4], k)

\* The sum of the doubles in full X and Y, rounded.
SumInFull(X, Y, k) ==
    SumOver(X, Y, (X[2] * Y[2]) \div GCD(X[2], Y[2]), k)

\* x + y for two finite floats of one scale, not both dyadic, neither 0.0:
\* the exact sum of the two doubles, rounded.
RoundedSum(x, y) == SumInFull(Signed(x), Signed(y), x[3])

\* The quotient of the double in full X by the dyadic float y, rounded.
QuotientInFull(X, y, k) ==
    Rounded(Sign(y[1]) * X[1] * y[2], X[2] * Abs(y[1]),
            Sign(y[1]) * X[3] * y[2], X[4], k)

\* x / y for a finite float x that is not dyadic and a dyadic y, neither
\* 0.0: the exact quotient of the two doubles, rounded.
RoundedQuotient(x, y) == QuotientInFull(Signed(x), y, x[3] - y[3])

\* Each operator binds its operands to values once (x0 to x, y0 to y), so
\* that an operand expression is evaluated a single time.
\* x + y, rounded as the double addition rounds it: two dyadic floats with
\* the same k add up exactly (the sum has far fewer than 53 significant
\* bits), and the sum of two floats of which one is not dyadic is rounded
\* to the nearest double; with different k the sum lies within half a unit
\* in the last place of the larger operand, and is rounded to that operand.
\* With an infinity or nan the cross product gives the IEEE result but for
\* two infinities, which are told apart by their signs.
FAdd(x0, y0) ==
    CHOOSE r \in {IF x[2] = 0 \/ y[2] = 0
                  THEN (IF x[2] = 0 /\ y[2] = 0 /\ x[1] = y[1] THEN x
                        ELSE Float(x[1] * y[2] + y[1] * x[2], 0))
                  ELSE IF x[1] = 0 THEN y
                  ELSE IF y[1] = 0 THEN x
                  ELSE IF x[3] = y[3]
                       THEN (IF Dyadic(x) /\ Dyadic(y)
                             THEN Scaled(x[1] * y[2] + y[1] * x[2],
                                         x[2] * y[2], x[3])
                             ELSE RoundedSum(x, y))
                  ELSE IF x[3] > y[3] THEN x ELSE y :
                    x \in {x0}, y \in {y0}} : TRUE
\* x - y is x + (-y), rounded in the same way: 2.0 ** 100 - 1.0 is
\* 2.0 ** 100.
FSub(x0, y0) ==
    CHOOSE r \in {FAdd(x, Negated(y)) : x \in {x0}, y \in {y0}} : TRUE
\* x < y and x <= y: false when an operand is nan. Two floats with the same
\* n / d and k are apart by their units in the last place.
FLt(x0, y0) ==
    \E x \in {x0}, y \in {y0} :
        IF x[2] = 0 \/ y[2] = 0
        THEN (IF x[2] = 0 /\ y[2] = 0
              THEN x[1] # 0 /\ y[1] # 0 /\ x[1] < y[1]
              ELSE x[1] * y[2] < y[1] * x[2])
        ELSE IF Sign(x[1]) # Sign(y[1]) THEN Sign(x[1]) < Sign(y[1])
        ELSE IF x[3] = y[3]
             THEN (IF x[1] * y[2] = y[1] * x[2] THEN Ulps(x) < Ulps(y)
                   ELSE x[1] * y[2] < y[1] * x[2])
        ELSE IF x[1] > 0 THEN x[3] < y[3] ELSE x[3] > y[3]
FLe(x0, y0) ==
    \E x \in {x0}, y \in {y0} :
        /\ x # NaN
        /\ y # NaN
        /\ IF x[2] = 0 \/ y[2] = 0
           THEN (IF x[2] = 0 /\ y[2] = 0
                 THEN x[1] <= y[1]
                 ELSE x[1] * y[2] <= y[1] * x[2])
           ELSE IF Sign(x[1]) # Sign(y[1]) THEN Sign(x[1]) < Sign(y[1])
           ELSE IF x[3] = y[3]
                THEN (IF x[1] * y[2] = y[1] * x[2] THEN Ulps(x) <= Ulps(y)
                      ELSE x[1] * y[2] < y[1] * x[2])
           ELSE IF x[1] > 0 THEN x[3] < y[3] ELSE x[3] > y[3]
\* x / y for a dyadic y # 0 (compute_sla_interval divides by a delta_total
\* that is not <= 0, compute_window_sla by the length of the window): the
\* double nearest to the quotient of the two doubles.
FDiv(x0, y0) ==
    CHOOSE r \in {IF x[1] # 0 /\ x[2] # 0 /\ y[2] # 0 /\ ~Dyadic(x)
                  THEN RoundedQuotient(x, y)
                  ELSE IF y[1] > 0
                  THEN Scaled(x[1] * y[2], x[2] * y[1], x[3] - y[3])
                  ELSE Scaled(-(x[1] * y[2]), x[2] * (-y[1]), x[3] - y[3]) :
                    x \in {x0}, y \in {y0}} : TRUE

\* The real number u + h * 2^100 as the pair <<u, h>> of two floats with
\* k = 0; an infinity or nan stands for itself, with h = 0.0. A sum of
\* deltas is kept as such a pair, which no addition rounds (a delta, like a
\* total, has k = 0 or k = 1).
Real(x) ==
    IF Finite(x) /\ x[3] = 1 THEN <<Zero, Scaled(x[1], x[2], 0)>>
    ELSE <<x, Zero>>
\* The real number a + x for a pair a and a float x.
RealAdd(a, x) ==
    LET u == FAdd(a[1], Real(x)[1])
    IN IF Finite(u) THEN <<u, FAdd(a[2], Real(x)[2])>> ELSE <<u, Zero>>

\* The totals a scrape can report for one counter, and the absent one.
\* parse_metric_value accepts a sign, a fraction and an exponent, and float()
\* turns an exponent beyond the range of a double into inf or -inf, and any
\* run of digits into the double nearest to it.
Totals ==
    {Float(n, 1) : n \in -1..MaxTotal} \cup {Float(1, 2), Huge, Inf, NegInf}
OptTotals == Totals \cup {None}
Durations == {Float(n, 1) : n \in 1..MaxDuration}
\* Config.WINDOW_SIZE: any integer deque(maxlen=...) accepts.
WindowSizes == 0..MaxWindow
\* The scrape intervals env.int can give: it accepts any integer, and
\* time.sleep raises ValueError for a negative one.
ScrapeIntervals == {-1, 1}

\* ------------------------------------------------------------ SLAClient
\* _calc_delta taking the current total as the delta, whatever was stored.
calc_delta_ignores_previous(current, previous) ==
    IF current # None THEN current ELSE Zero

\* _calc_delta clamping the negative difference of a reset to 0.0.
calc_delta_clamps_reset(current, previous) ==
    LET delta ==
            IF previous = None
            THEN (IF current # None THEN current ELSE Zero)
            ELSE IF current = None THEN Zero ELSE FSub(current, previous)
    IN IF FLt(delta, Zero) THEN Zero ELSE delta

\* _calc_delta taking the first total it sees as a baseline: no stored
\* previous, delta 0.0.
calc_delta_baseline_first(current, previous) ==
    IF previous = None \/ current = None
    THEN Zero
    ELSE LET d == FSub(current, previous)
         IN IF FLt(d, Zero) THEN current ELSE d

\* _calc_delta(current, previous)
calc_delta(current, previous) ==
    LET delta ==
            IF previous = None
            THEN (IF current # None THEN current ELSE Zero)
            ELSE IF current = None
                 THEN Zero
                 ELSE LET d == FSub(current, previous)
                      IN IF FLt(d, Zero) THEN current ELSE d
    IN IF FLt(delta, Zero) THEN Zero ELSE delta

\* The ratio compute_sla_interval returns for a positive delta_total.
sla_ratio(d_success, d_total) ==
    LET r == FDiv(d_success, d_total)
        lo == IF FLt(r, Zero) THEN Zero ELSE r
    IN IF FLt(One, lo) THEN One ELSE lo

\* compute_sla_interval without its early return: a cycle with both totals
\* absent is computed as a cycle with both totals 0.0.
compute_sla_interval_no_skip(s_total, f_total, ps, pf) ==
    LET success_val == IF s_total # None THEN s_total ELSE Zero
        fail_val == IF f_total # None THEN f_total ELSE Zero
        ds == calc_delta(success_val, ps)
        df == calc_delta(fail_val, pf)
        dt == FAdd(ds, df)
    IN [ret |-> IF FLe(dt, Zero) THEN None ELSE sla_ratio(ds, dt),
        prev_success |-> success_val, prev_fail |-> fail_val,
        delta_success |-> ds, delta_fail |-> df]

\* compute_sla_interval storing the totals only when it returns a ratio.
compute_sla_interval_stores_on_ratio(s_total, f_total, ps, pf) ==
    IF s_total = None /\ f_total = None
    THEN [ret |-> None, prev_success |-> ps, prev_fail |-> pf,
          delta_success |-> None, delta_fail |-> None]
    ELSE LET success_val == IF s_total # None THEN s_total ELSE Zero
             fail_val == IF f_total # None THEN f_total ELSE Zero
             ds == calc_delta(success_val, ps)
             df == calc_delta(fail_val, pf)
             dt == FAdd(ds, df)
         IN IF FLe(dt, Zero)
            THEN [ret |-> None, prev_success |-> ps, prev_fail |-> pf,
                  delta_success |-> ds, delta_fail |-> df]
            ELSE [ret |-> sla_ratio(ds, dt),
                  prev_success |-> success_val, prev_fail |-> fail_val,
                  delta_success |-> ds, delta_fail |-> df]

\* compute_sla_interval skipping the cycle when either total is absent.
compute_sla_interval_skips_partial(s_total, f_total, ps, pf) ==
    IF s_total = None \/ f_total = None
    THEN [ret |-> None, prev_success |-> ps, prev_fail |-> pf,
          delta_success |-> None, delta_fail |-> None]
    ELSE LET ds == calc_delta(s_total, ps)
             df == calc_delta(f_total, pf)
             dt == FAdd(ds, df)
         IN [ret |-> IF FLe(dt, Zero) THEN None ELSE sla_ratio(ds, dt),
             prev_success |-> s_total, prev_fail |-> f_total,
             delta_success |-> ds, delta_fail |-> df]

\* compute_sla_interval leaving an absent total out of the arithmetic: its
\* delta is 0.0 and its stored total is kept.
compute_sla_interval_keeps_absent(s_total, f_total, ps, pf) ==
    IF s_total = None /\ f_total = None
    THEN [ret |-> None, prev_success |-> ps, prev_fail |-> pf,
          delta_success |-> None, delta_fail |-> None]
    ELSE LET ds == calc_delta(s_total, ps)
             df == calc_delta(f_total, pf)
             dt == FAdd(ds, df)
         IN [ret |-> IF FLe(dt, Zero) THEN None ELSE sla_ratio(ds, dt),
             prev_success |-> IF s_total # None THEN s_total ELSE ps,
             prev_fail |-> IF f_total # None THEN f_total ELSE pf,
             delta_success |-> ds, delta_fail |-> df]

\* compute_sla_interval(success_total, fail_total) in a state whose stored
\* totals are ps, pf: the value returned, the stored totals afterwards and the
\* two deltas it computed (None when it computed none).
compute_sla_interval(s_total, f_total, ps, pf) ==
    IF s_total = None /\ f_total = None
    THEN [ret |-> None, prev_success |-> ps, prev_fail |-> pf,
          delta_success |-> None, delta_fail |-> None]
    ELSE LET success_val == IF s_total # None THEN s_total ELSE Zero
             fail_val == IF f_total # None THEN f_total ELSE Zero
             ds == calc_delta(success_val, ps)
             df == calc_delta(fail_val, pf)
             dt == FAdd(ds, df)
         IN [ret |-> IF FLe(dt, Zero) THEN None ELSE sla_ratio(ds, dt),
             prev_success |-> success_val, prev_fail |-> fail_val,
             delta_success |-> ds, delta_fail |-> df]

\* A window that never evicts.
add_to_window_unbounded(win, maxlen, ratio) == Append(win, ratio)

\* A full window that gives up its newest entry instead of its oldest.
add_to_window_drops_newest(win, maxlen, ratio) ==
    IF maxlen = 0 THEN win
    ELSE IF Len(win) = maxlen
         THEN Append(SubSeq(win, 1, Len(win) - 1), ratio)
    ELSE Append(win, ratio)

\* deque(maxlen=maxlen).append(sla_ratio)
add_to_window(win, maxlen, ratio) ==
    IF maxlen = 0 THEN win
    ELSE IF Len(win) = maxlen THEN Append(Tail(win), ratio)
    ELSE Append(win, ratio)

RECURSIVE Sum(_)
\* sum(self.window): the ratios added to 0 one by one, oldest first, each
\* addition rounded.
Sum(s) ==
    IF s = <<>> THEN Zero
    ELSE FAdd(Sum(SubSeq(s, 1, Len(s) - 1)), s[Len(s)])

\* sum(self.window) / len(self.window), the quotient rounded.
compute_window_sla(win) ==
    IF Len(win) = 0 THEN None ELSE FDiv(Sum(win), Float(Len(win), 1))

\* parse_metric_value on a response body, the body given as the value (or
\* None) it carries for each metric name.
parse_metric_value(metrics_text, metric_name) == metrics_text[metric_name]

\* ---------------------------------------------------------------- state
VARIABLES
    window_size,        \* config.WINDOW_SIZE
    prev_success,       \* SLAClient.prev_success
    prev_fail,          \* SLAClient.prev_fail
    window,             \* SLAClient.window
    pc,                 \* the statement of main the process is at
    success_total,      \* main's locals
    fail_total,
    req_duration,
    sla_interval,
    fetch_outcome,      \* how requests.get ended in this cycle
    duration,           \* fetch_prober_metrics's local
    delta_success,      \* compute_sla_interval's locals in its last call
    delta_fail,
    old_prev_success,   \* the stored totals that call started from
    old_prev_fail,
    appended,           \* the ratios AppendRatio has appended, in order
    sla_current_ratio,  \* SLA_CURRENT_RATIO
    sla_window_ratio,   \* SLA_WINDOW_RATIO
    sla_calc_total,     \* SLA_CALC_TOTAL
    sla_prober_request_duration_seconds,
    exit_code,          \* None while the process runs
    n_calls,            \* calls of compute_sla_interval made by CallInterval
    sum_delta_success,  \* the sum of the success deltas those calls
                        \* computed, as a real number
    sum_delta_fail,
    last_success,       \* the last success total a call was given
    last_fail,
    monotonic,          \* every call so far had both totals, not lower than
                        \* the last ones, or had none
    in_range,           \* every total given so far was a whole number
                        \* from 0 to 2^53
    prober_create_user_scenario_total,
    prober_create_user_scenario_success_total,
    prober_create_user_scenario_success_fail_total,
    prober_pc,          \* "loop", or "raised" once probe() has raised
    create_request,     \* how the requests of the last probe ended
    delete_request,
    checker_pc,         \* "loop", or "raised" once the iteration has raised
    iterations,         \* iterations of the checker loop started
    queries,            \* how the three queries of the last iteration ended
    indicators,         \* the rows the last iteration inserted, in order
    SCRAPE_INTERVAL,    \* counter.py's config.SCRAPE_INTERVAL
    oncall_exporter_scrape_interval,    \* prober.py's config
    scrape_interval     \* app.py's config.scrape_interval

vars == <<window_size, prev_success, prev_fail, window, pc, success_total,
          fail_total, req_duration, sla_interval, fetch_outcome,
          duration, delta_success, delta_fail,
          old_prev_success, old_prev_fail, appended, sla_current_ratio,
          sla_window_ratio, sla_calc_total,
          sla_prober_request_duration_seconds, exit_code,
          n_calls, sum_delta_success, sum_delta_fail, last_success,
          last_fail, monotonic, in_range,
          prober_create_user_scenario_total,
          prober_create_user_scenario_success_total,
          prober_create_user_scenario_success_fail_total,
          prober_pc, create_request, delete_request,
          checker_pc, iterations, queries, indicators,
          SCRAPE_INTERVAL, oncall_exporter_scrape_interval, scrape_interval>>

client == <<prev_success, prev_fail, window>>
ghost == <<delta_success, delta_fail, old_prev_success, old_prev_fail>>
locals == <<success_total, fail_total, req_duration, sla_interval,
            fetch_outcome, duration>>
gauges == <<sla_current_ratio, sla_window_ratio>>
history == <<n_calls, sum_delta_success, sum_delta_fail, last_success,
             last_fail, monotonic, in_range>>
prober == <<prober_create_user_scenario_total,
            prober_create_user_scenario_success_total,
            prober_create_user_scenario_success_fail_total,
            prober_pc, create_request, delete_request>>
checker == <<checker_pc, iterations, queries, indicators>>
\* The settings read from the environment; no statement assigns them.
config == <<SCRAPE_INTERVAL, oncall_exporter_scrape_interval, scrape_interval>>
\* What the aggregator's loop does not touch.
others == <<history, prober, checker, config>>

\* The three programs up to the first test of their `while True`.
Start ==
    /\ window_size \in WindowSizes
    /\ prev_success = None
    /\ prev_fail = None
    /\ window = <<>>
    /\ pc = "loop"
    /\ success_total = None
    /\ fail_total = None
    /\ req_duration = None
    /\ sla_interval = None
    /\ fetch_outcome = "none"
    /\ duration = None
    /\ delta_success = None
    /\ delta_fail = None
    /\ old_prev_success = None
    /\ old_prev_fail = None
    /\ appended = <<>>
    /\ sla_current_ratio = Zero
    /\ sla_window_ratio = Zero
    /\ sla_calc_total = 0
    /\ sla_prober_request_duration_seconds = Zero
    /\ exit_code = None
    /\ n_calls = 0
    /\ sum_delta_success = Real(Zero)
    /\ sum_delta_fail = Real(Zero)
    /\ last_success = None
    /\ last_fail = None
    /\ monotonic = TRUE
    /\ in_range = TRUE
    /\ prober_create_user_scenario_total = 0
    /\ prober_create_user_scenario_success_total = 0
    /\ prober_create_user_scenario_success_fail_total = 0
    /\ prober_pc = "loop"
    /\ create_request = None
    /\ delete_request = None
    /\ checker_pc = "loop"
    /\ iterations = 0
    /\ queries = <<>>
    /\ indicators = <<>>

\* The three programs started with scrape intervals from the given sets.
Configured(aggregator, exporter, sla_checker) ==
    /\ SCRAPE_INTERVAL \in aggregator
    /\ oncall_exporter_scrape_interval \in exporter
    /\ scrape_interval \in sla_checker

\* main up to the first test of `while True`, for any SLA_SCRAPE_INTERVAL.
Init == Start /\ Configured(ScrapeIntervals, {1}, {1})

\* The loop starting a cycle without counting it.
StartCycle_no_inc ==
    /\ pc = "loop"
    /\ sla_calc_total < MaxCycles
    /\ success_total' = None
    /\ fail_total' = None
    /\ req_duration' = None
    /\ sla_interval' = None
    /\ fetch_outcome' = "none"
    /\ duration' = None
    /\ delta_success' = None
    /\ delta_fail' = None
    /\ old_prev_success' = None
    /\ old_prev_fail' = None
    /\ pc' = "fetch"
    /\ UNCHANGED <<others, window_size, client, appended, gauges, sla_calc_total,
                   sla_prober_request_duration_seconds, exit_code>>

\* SLA_CALC_TOTAL.inc(). The values the previous cycle left in main's locals
\* are dead from here on (each is assigned again before it is read), and are
\* recorded as None until this cycle assigns them.
StartCycle ==
    /\ pc = "loop"
    /\ sla_calc_total < MaxCycles
    /\ sla_calc_total' = sla_calc_total + 1
    /\ success_total' = None
    /\ fail_total' = None
    /\ req_duration' = None
    /\ sla_interval' = None
    /\ fetch_outcome' = "none"
    /\ duration' = None
    /\ delta_success' = None
    /\ delta_fail' = None
    /\ old_prev_success' = None
    /\ old_prev_fail' = None
    /\ pc' = "fetch"
    /\ UNCHANGED <<others, window_size, client, appended, gauges,
                   sla_prober_request_duration_seconds, exit_code>>

\* fetch_prober_metrics: requests.get raises RequestException (a timeout, a
\* refused connection, ...); the except clause measures the duration and
\* sets the duration gauge.
FetchTransportError ==
    /\ pc = "fetch"
    /\ \E seconds \in Durations :
          /\ duration' = seconds
          /\ sla_prober_request_duration_seconds' = seconds
    /\ fetch_outcome' = "error"
    /\ pc' = "fetch_return"
    /\ UNCHANGED <<others, window_size, client, success_total, fail_total,
                   req_duration, sla_interval, ghost, appended, gauges,
                   sla_calc_total, exit_code>>

\* fetch_prober_metrics: requests.get raises an exception that is not a
\* RequestException (ValueError for a redirect to a malformed URL, or for a
\* configured timeout <= 0). The except clause does not catch it and main
\* has none: the process ends with a traceback, the duration gauge not set.
FetchRaises ==
    /\ pc = "fetch"
    /\ fetch_outcome' = "raised"
    /\ pc' = "raised"
    /\ exit_code' = <<1>>
    /\ UNCHANGED <<others, window_size, client, success_total, fail_total,
                   req_duration, sla_interval, duration, ghost, appended,
                   gauges, sla_calc_total,
                   sla_prober_request_duration_seconds>>

\* fetch_prober_metrics: requests.get returns a response whose status is not
\* 200; the duration is measured and the duration gauge set.
FetchNon200 ==
    /\ pc = "fetch"
    /\ \E seconds \in Durations :
          /\ duration' = seconds
          /\ sla_prober_request_duration_seconds' = seconds
    /\ fetch_outcome' = "non200"
    /\ pc' = "fetch_return"
    /\ UNCHANGED <<others, window_size, client, success_total, fail_total,
                   req_duration, sla_interval, ghost, appended, gauges,
                   sla_calc_total, exit_code>>

\* fetch_prober_metrics: requests.get returns a response with status 200;
\* the duration is measured and the duration gauge set.
FetchOk ==
    /\ pc = "fetch"
    /\ \E seconds \in Durations :
          /\ duration' = seconds
          /\ sla_prober_request_duration_seconds' = seconds
    /\ fetch_outcome' = "ok"
    /\ pc' = "fetch_return"
    /\ UNCHANGED <<others, window_size, client, success_total, fail_total,
                   req_duration, sla_interval, ghost, appended, gauges,
                   sla_calc_total, exit_code>>

\* fetch_prober_metrics, the duration gauge set: `return None, None,
\* duration` after a RequestException and after a status that is not 200.
FetchReturnsNone ==
    /\ pc = "fetch_return"
    /\ fetch_outcome \in {"error", "non200"}
    /\ success_total' = None
    /\ fail_total' = None
    /\ req_duration' = duration
    /\ pc' = "compute"
    /\ UNCHANGED <<others, window_size, client, sla_interval, fetch_outcome,
                   duration, ghost, appended, gauges, sla_calc_total,
                   sla_prober_request_duration_seconds, exit_code>>

\* fetch_prober_metrics, the duration gauge set: the two metrics are parsed
\* from the body of the 200 response (text is what the body carries for
\* each) and returned with the duration.
FetchReturnsTotals ==
    /\ pc = "fetch_return"
    /\ fetch_outcome = "ok"
    /\ \E text \in [{"success", "fail"} -> OptTotals] :
          /\ success_total' = parse_metric_value(text, "success")
          /\ fail_total' = parse_metric_value(text, "fail")
    /\ req_duration' = duration
    /\ pc' = "compute"
    /\ UNCHANGED <<others, window_size, client, sla_interval, fetch_outcome,
                   duration, ghost, appended, gauges, sla_calc_total,
                   sla_prober_request_duration_seconds, exit_code>>

\* The call of compute_sla_interval main makes in the current state.
IntervalCall ==
    compute_sla_interval(success_total, fail_total, prev_success, prev_fail)

\* sla_interval = client.compute_sla_interval(success_total, fail_total).
\* The interpreter runs a signal handler when it enters a call or jumps
\* back in a loop, and the call makes none between its two assignments to
\* self (it logs before the first or after the second), so no signal falls
\* between them.
ComputeInterval ==
    /\ pc = "compute"
    /\ sla_interval' = IntervalCall.ret
    /\ prev_success' = IntervalCall.prev_success
    /\ prev_fail' = IntervalCall.prev_fail
    /\ delta_success' = IntervalCall.delta_success
    /\ delta_fail' = IntervalCall.delta_fail
    /\ old_prev_success' = prev_success
    /\ old_prev_fail' = prev_fail
    /\ pc' = "publish_current"
    /\ UNCHANGED <<others, window_size, window, success_total, fail_total,
                   req_duration, fetch_outcome, duration, appended, gauges,
                   sla_calc_total,
                   sla_prober_request_duration_seconds, exit_code>>

\* The loop appending the 0.0 placeholder of an undefined interval.
PublishCurrent_appends_placeholder ==
    /\ pc = "publish_current"
    /\ sla_current_ratio' = (IF sla_interval = None THEN Zero ELSE sla_interval)
    /\ window' = (IF sla_interval = None
                  THEN add_to_window(window, window_size, Zero) ELSE window)
    /\ pc' = (IF sla_interval = None THEN "publish_window" ELSE "append")
    /\ UNCHANGED <<others, window_size, prev_success, prev_fail, locals, ghost,
                   appended, sla_window_ratio, sla_calc_total,
                   sla_prober_request_duration_seconds, exit_code>>

\* The loop leaving the gauge of an undefined interval at its last value.
PublishCurrent_keeps_stale_gauge ==
    /\ pc = "publish_current"
    /\ sla_current_ratio' =
          (IF sla_interval = None THEN sla_current_ratio ELSE sla_interval)
    /\ pc' = (IF sla_interval = None THEN "publish_window" ELSE "append")
    /\ UNCHANGED <<others, window_size, client, locals, ghost, appended,
                   sla_window_ratio, sla_calc_total,
                   sla_prober_request_duration_seconds, exit_code>>

\* if sla_interval is None: SLA_CURRENT_RATIO.set(0.0)
\* else: SLA_CURRENT_RATIO.set(sla_interval), the append still to come.
PublishCurrent ==
    /\ pc = "publish_current"
    /\ sla_current_ratio' = (IF sla_interval = None THEN Zero ELSE sla_interval)
    /\ pc' = (IF sla_interval = None THEN "publish_window" ELSE "append")
    /\ UNCHANGED <<others, window_size, client, locals, ghost, appended,
                   sla_window_ratio, sla_calc_total,
                   sla_prober_request_duration_seconds, exit_code>>

\* client.add_to_window(sla_interval), the statement after
\* SLA_CURRENT_RATIO.set(sla_interval).
AddToWindow ==
    /\ pc = "append"
    /\ window' = add_to_window(window, window_size, sla_interval)
    /\ pc' = "publish_window"
    /\ UNCHANGED <<others, window_size, prev_success, prev_fail, locals, ghost,
                   appended, gauges, sla_calc_total,
                   sla_prober_request_duration_seconds, exit_code>>

\* sla_window = client.compute_window_sla(); if sla_window is None: ...
PublishWindow ==
    /\ pc = "publish_window"
    /\ LET sla_window == compute_window_sla(window)
       IN sla_window_ratio' = (IF sla_window = None THEN Zero ELSE sla_window)
    /\ pc' = "sleep"
    /\ UNCHANGED <<others, window_size, client, locals, ghost, appended,
                   sla_current_ratio, sla_calc_total,
                   sla_prober_request_duration_seconds, exit_code>>

\* time.sleep(config.SCRAPE_INTERVAL) returns.
Sleep ==
    /\ pc = "sleep"
    /\ SCRAPE_INTERVAL >= 0
    /\ pc' = "loop"
    /\ UNCHANGED <<others, window_size, client, locals, ghost, appended, gauges,
                   sla_calc_total, sla_prober_request_duration_seconds,
                   exit_code>>

\* time.sleep(config.SCRAPE_INTERVAL) raises ValueError for a negative
\* interval: nothing catches it, the process ends with exit code 1.
SleepRaises ==
    /\ pc = "sleep"
    /\ SCRAPE_INTERVAL < 0
    /\ pc' = "raised"
    /\ exit_code' = <<1>>
    /\ UNCHANGED <<others, window_size, client, locals, ghost, appended, gauges,
                   sla_calc_total, sla_prober_request_duration_seconds>>

\* SIGTERM is delivered: terminate() raises SystemExit(0) in the main thread,
\* in the statement the process is at or in a call that statement makes.
\* Every step of the loop has one effect on the gauges, the counter and the
\* client (ComputeInterval's two stores aside), so a signal in the middle of
\* a statement ends in the state before or after one step: with the
\* duration gauge set and nothing returned to main ("fetch_return"), with
\* the ratio published and not appended ("append").
Terminate ==
    /\ pc \notin {"exited", "raised"}
    /\ pc' = "exited"
    /\ exit_code' = <<0>>
    /\ UNCHANGED <<others, window_size, client, locals, ghost, appended, gauges,
                   sla_calc_total, sla_prober_request_duration_seconds>>

Next ==
    \/ StartCycle
    \/ FetchTransportError
    \/ FetchRaises
    \/ FetchNon200
    \/ FetchOk
    \/ FetchReturnsNone
    \/ FetchReturnsTotals
    \/ ComputeInterval
    \/ PublishCurrent
    \/ AddToWindow
    \/ PublishWindow
    \/ Sleep
    \/ SleepRaises
    \/ Terminate

Spec == Init /\ [][Next]_vars

\* A statement of the loop.
LoopStep ==
    \/ StartCycle
    \/ FetchTransportError
    \/ FetchRaises
    \/ FetchNon200
    \/ FetchOk
    \/ FetchReturnsNone
    \/ FetchReturnsTotals
    \/ ComputeInterval
    \/ PublishCurrent
    \/ AddToWindow
    \/ PublishWindow
    \/ Sleep
    \/ SleepRaises

\* The statements of the loop that end on their own: the computations, the
\* gauge updates and the sleep. The request is not one of them: requests
\* applies the timeout to each read of the socket, so a prober that keeps
\* sending keeps the process in requests.get for as long as it likes.
Returns ==
    \/ StartCycle
    \/ FetchReturnsNone
    \/ FetchReturnsTotals
    \/ ComputeInterval
    \/ PublishCurrent
    \/ AddToWindow
    \/ PublishWindow
    \/ Sleep
    \/ SleepRaises

\* The loop with its progress; a termination signal may or may not come and
\* a request may or may not end.
SpecLive == Spec /\ WF_vars(Returns)

\* ------------------------------------------------- the window on its own
\* Every ratio the first call of compute_sla_interval on a fresh client can
\* return for totals in Totals (nan for an infinite total included).
Ratios ==
    {compute_sla_interval(s, f, None, None).ret : s \in Totals, f \in Totals}
    \ {None}

\* client.add_to_window(ratio) on a client of any capacity, for any ratio.
AppendRatio ==
    /\ Len(appended) < MaxAppends
    /\ \E ratio \in Ratios :
          /\ window' = add_to_window(window, window_size, ratio)
          /\ appended' = Append(appended, ratio)
    /\ UNCHANGED <<others, window_size, prev_success, prev_fail, pc, locals, ghost,
                   gauges, sla_calc_total,
                   sla_prober_request_duration_seconds, exit_code>>

NextWindow == AppendRatio

\* A client on its own.
InitClient == Start /\ Configured({1}, {1}, {1})

SpecWindow == InitClient /\ [][NextWindow]_vars

\* ------------------------------------- compute_sla_interval on its own
\* The number of calls CallInterval makes.
MaxCalls == 3

\* A delta as a summand: a call that returned early computed none.
Counted(delta) == IF delta = None THEN Zero ELSE delta

\* A scrape of a run in which the counters only grow: both totals present and
\* not below the last ones seen, or both absent.
MonotonicScrape(s_total, f_total) ==
    \/ s_total = None /\ f_total = None
    \/ /\ s_total # None
       /\ f_total # None
       /\ (last_success # None => FLe(last_success, s_total))
       /\ (last_fail # None => FLe(last_fail, f_total))

\* A total in the range in which the subtraction of two totals is exact:
\* absent, or a whole number from 0 to 2^53 (a whole number with k = 0 is
\* below 2^20).
InRange(total) ==
    \/ total = None
    \/ /\ total # None
       /\ Finite(total)
       /\ FLe(Zero, total)
       /\ total[2] = 1
       /\ total[3] = 0

\* client.compute_sla_interval(success_total, fail_total) for any two totals,
\* with the history of the calls kept beside it.
CallInterval ==
    /\ n_calls < MaxCalls
    /\ \E s_total \in OptTotals, f_total \in OptTotals :
          /\ success_total' = s_total
          /\ fail_total' = f_total
          /\ monotonic' = (monotonic /\ MonotonicScrape(s_total, f_total))
          /\ in_range' = (in_range /\ InRange(s_total) /\ InRange(f_total))
          /\ last_success' = (IF s_total # None THEN s_total ELSE last_success)
          /\ last_fail' = (IF f_total # None THEN f_total ELSE last_fail)
    /\ \E call \in {compute_sla_interval(success_total', fail_total',
                                          prev_success, prev_fail)} :
          /\ sla_interval' = call.ret
          /\ prev_success' = call.prev_success
          /\ prev_fail' = call.prev_fail
          /\ delta_success' = call.delta_success
          /\ delta_fail' = call.delta_fail
    /\ old_prev_success' = prev_success
    /\ old_prev_fail' = prev_fail
    /\ sum_delta_success' = RealAdd(sum_delta_success, Counted(delta_success'))
    /\ sum_delta_fail' = RealAdd(sum_delta_fail, Counted(delta_fail'))
    /\ n_calls' = n_calls + 1
    /\ UNCHANGED <<window_size, window, pc, req_duration, fetch_outcome,
                   duration, appended, gauges, sla_calc_total,
                   sla_prober_request_duration_seconds, exit_code, prober,
                   checker, config>>

NextCalls == CallInterval

SpecCalls == InitClient /\ [][NextCalls]_vars

\* ------------------------------------------------ the prober (prober.py)
\* The number of probes the prober's loop starts.
MaxProbes == 3

\* A requests.Response with the given status.
Response(status_code) == <<status_code>>

\* The responses a request can get.
Responses == {Response(200), Response(201), Response(404)}

\* bool(response): Response.__bool__ is Response.ok, which is false for the
\* statuses raise_for_status() raises on, 400 to 599. None is the value
\* create_request keeps when requests.post raises.
Truthy(response) ==
    response # None /\ ~(400 <= response[1] /\ response[1] < 600)

\* What the aggregator's loop and the checker hold.
not_prober == <<window_size, client, pc, locals, ghost, appended, gauges,
                sla_calc_total, sla_prober_request_duration_seconds,
                exit_code, history, checker, config>>

\* client.probe() is called: PROBER_CREATE_USER_SCENARIO_TOTAL.inc(), the
\* locals of the new call not bound yet (None stands for an unbound local).
ProbeStart ==
    /\ prober_pc = "loop"
    /\ prober_create_user_scenario_total < MaxProbes
    /\ prober_create_user_scenario_total' =
          prober_create_user_scenario_total + 1
    /\ create_request' = None
    /\ delete_request' = None
    /\ prober_pc' = "counted"
    /\ UNCHANGED <<not_prober, prober_create_user_scenario_success_total,
                   prober_create_user_scenario_success_fail_total>>

\* The statements between the increment and the request: the log line, the
\* start of the clock, create_request = None, and the entry into the try
\* statement, whose first statement calls requests.post.
EnterTry ==
    /\ prober_pc = "counted"
    /\ create_request' = None
    /\ prober_pc' = "create"
    /\ UNCHANGED <<not_prober, prober_create_user_scenario_total,
                   prober_create_user_scenario_success_total,
                   prober_create_user_scenario_success_fail_total,
                   delete_request>>

\* requests.post returns a response.
CreateReturns ==
    /\ prober_pc = "create"
    /\ \E response \in Responses : create_request' = response
    /\ prober_pc' = "delete"
    /\ UNCHANGED <<not_prober, prober_create_user_scenario_total,
                   prober_create_user_scenario_success_total,
                   prober_create_user_scenario_success_fail_total,
                   delete_request>>

\* requests.post raises: the except clause logs the error and counts a
\* failure, the process still in the clause.
CreateRaises ==
    /\ prober_pc = "create"
    /\ prober_create_user_scenario_success_fail_total' =
          prober_create_user_scenario_success_fail_total + 1
    /\ prober_pc' = "except"
    /\ UNCHANGED <<not_prober, prober_create_user_scenario_total,
                   prober_create_user_scenario_success_total,
                   create_request, delete_request>>

\* The except clause ends and the finally clause calls requests.delete.
EnterFinally ==
    /\ prober_pc = "except"
    /\ prober_pc' = "delete"
    /\ UNCHANGED <<not_prober, prober_create_user_scenario_total,
                   prober_create_user_scenario_success_total,
                   prober_create_user_scenario_success_fail_total,
                   create_request, delete_request>>

\* requests.delete, in the finally clause, returns a response; the
\* SystemExit that brought the process into the clause goes on when the
\* clause ends.
DeleteReturns ==
    /\ prober_pc \in {"delete", "delete_exiting"}
    /\ \E response \in Responses : delete_request' = response
    /\ prober_pc' = (IF prober_pc = "delete" THEN "outcome" ELSE "exited")
    /\ UNCHANGED <<not_prober, prober_create_user_scenario_total,
                   prober_create_user_scenario_success_total,
                   prober_create_user_scenario_success_fail_total,
                   create_request>>

\* requests.delete raises: the exception is logged and delete_request stays
\* unbound.
DeleteRaises ==
    /\ prober_pc \in {"delete", "delete_exiting"}
    /\ prober_pc' = (IF prober_pc = "delete" THEN "outcome" ELSE "exited")
    /\ UNCHANGED <<not_prober, prober_create_user_scenario_total,
                   prober_create_user_scenario_success_total,
                   prober_create_user_scenario_success_fail_total,
                   create_request, delete_request>>

\* The if statement that ends probe(): "success", "fail", or "raised" when
\* its condition reads the unbound delete_request (UnboundLocalError).
outcome(create, delete) ==
    IF ~Truthy(create) \/ create[1] # 200 THEN "fail"
    ELSE IF delete = None THEN "raised"
    ELSE IF delete[1] = 200 THEN "success"
    ELSE "fail"

\* if create_request and create_request.status_code == 200 and
\* delete_request.status_code == 200: ... else: ...
CountOutcome ==
    /\ prober_pc = "outcome"
    /\ prober_create_user_scenario_success_total' =
          prober_create_user_scenario_success_total
            + (IF outcome(create_request, delete_request) = "success"
               THEN 1 ELSE 0)
    /\ prober_create_user_scenario_success_fail_total' =
          prober_create_user_scenario_success_fail_total
            + (IF outcome(create_request, delete_request) = "fail"
               THEN 1 ELSE 0)
    /\ prober_pc' =
          (IF outcome(create_request, delete_request) = "raised"
           THEN "raised" ELSE "sleep")
    /\ UNCHANGED <<not_prober, prober_create_user_scenario_total,
                   create_request, delete_request>>

\* time.sleep(config.oncall_exporter_scrape_interval) returns.
ProberSleep ==
    /\ prober_pc = "sleep"
    /\ oncall_exporter_scrape_interval >= 0
    /\ prober_pc' = "loop"
    /\ UNCHANGED <<not_prober, prober_create_user_scenario_total,
                   prober_create_user_scenario_success_total,
                   prober_create_user_scenario_success_fail_total,
                   create_request, delete_request>>

\* time.sleep raises ValueError for a negative interval: nothing catches
\* it and the exception leaves main.
ProberSleepRaises ==
    /\ prober_pc = "sleep"
    /\ oncall_exporter_scrape_interval < 0
    /\ prober_pc' = "sleep_raised"
    /\ UNCHANGED <<not_prober, prober_create_user_scenario_total,
                   prober_create_user_scenario_success_total,
                   prober_create_user_scenario_success_fail_total,
                   create_request, delete_request>>

\* SIGTERM: terminate() raises SystemExit(0), in the statement the process
\* is at or in a call that statement makes. The except clauses catch
\* Exception only, so it leaves probe() and main. Raised before the try
\* statement ("counted": in the increment once it is made, in the log call,
\* at the clock), after it or in the finally clause's own request, it ends
\* the process at once. Raised in the try statement, during the create
\* request ("create") or in its except clause ("except"), it first enters
\* the finally clause, where the process sends the delete request and waits
\* for its answer ("delete_exiting") before it exits; a second signal
\* during that wait ends the wait.
ProberTerminate ==
    /\ prober_pc \notin {"exited", "raised", "sleep_raised"}
    /\ prober_pc' =
          (IF prober_pc \in {"create", "except"}
           THEN "delete_exiting" ELSE "exited")
    /\ UNCHANGED <<not_prober, prober_create_user_scenario_total,
                   prober_create_user_scenario_success_total,
                   prober_create_user_scenario_success_fail_total,
                   create_request, delete_request>>

NextProber ==
    \/ ProbeStart
    \/ EnterTry
    \/ CreateReturns
    \/ CreateRaises
    \/ EnterFinally
    \/ DeleteReturns
    \/ DeleteRaises
    \/ CountOutcome
    \/ ProberSleep
    \/ ProberSleepRaises
    \/ ProberTerminate

\* prober.py's main up to the first test of `while True`, for any
\* ONCALL_EXPORTER_SCRAPE_INTERVAL.
InitProber == Start /\ Configured({1}, ScrapeIntervals, {1})

SpecProber == InitProber /\ [][NextProber]_vars

\* --------------------------------------------- the SLA checker (app.py)
\* The number of iterations the checker's loop starts.
MaxIterations == 2

\* A sample value that float() rejects with ValueError.
Text == <<"abc">>

\* The sample values a query can return: "0", "0.05", "1.5", "NaN", "+Inf",
\* and values that are no number, "abc" and the JSON null (None). lastValue
\* returns whatever the answer holds.
Samples == {Float(0, 1), Float(1, 20), Float(3, 2), NaN, Inf, Text, None}

\* float(value) returns: the value is a number or the text of one.
IsNumber(value) == Len(value) = 3

\* How a query can end: requests.get or response.json() raises, the result
\* set is empty, or the first result carries a sample value.
QueryOutcomes ==
    {[kind |-> "error", value |-> None], [kind |-> "empty", value |-> None]}
        \cup {[kind |-> "value", value |-> v] : v \in Samples}

\* PrometheusRequest.lastValue(query, time_, default)
lastValue(query, default) ==
    IF query.kind = "value" THEN query.value ELSE default

\* int(x) for a finite float x: truncation towards zero.
Trunc(x) ==
    IF x[1] >= 0 THEN Float(x[1] \div x[2], 1)
    ELSE Float(-((-x[1]) \div x[2]), 1)

\* The default main passes to lastValue for the i-th indicator.
Default(i) ==
    IF i = 1 THEN Float(0, 1) ELSE IF i = 2 THEN Float(100, 1) ELSE Float(2, 1)

\* Whether main's conversion of the value raises: float(value) raises
\* ValueError on a text that is no number and TypeError on None, and for the
\* first two indicators int(float(value)) raises ValueError on nan and
\* OverflowError on inf.
ConversionRaises(i, query) ==
    \/ ~IsNumber(lastValue(query, Default(i)))
    \/ /\ i \in {1, 2}
       /\ IsNumber(lastValue(query, Default(i)))
       /\ ~Finite(lastValue(query, Default(i)))

\* The row main passes to db.save_indicator for the i-th indicator.
Row(i, query) ==
    IF i = 1
    THEN [name |-> "prober_create_user_scenario_success_total",
          slo |-> Float(1, 1),
          value |-> Trunc(lastValue(query, Default(1))),
          is_bad |-> FLt(Trunc(lastValue(query, Default(1))), Float(1, 1))]
    ELSE IF i = 2
    THEN [name |-> "prober_create_user_scenario_success_fail_total",
          slo |-> Float(0, 1),
          value |-> Trunc(lastValue(query, Default(2))),
          is_bad |-> FLt(Float(0, 1), Trunc(lastValue(query, Default(2))))]
    ELSE [name |-> "prober_create_user_scenario_duration_seconds",
          slo |-> Float(1, 10),
          value |-> lastValue(query, Default(3)),
          is_bad |-> FLt(Float(1, 10), lastValue(query, Default(3)))]

\* What the aggregator's loop and the prober hold.
not_checker == <<window_size, client, pc, locals, ghost, appended, gauges,
                 sla_calc_total, sla_prober_request_duration_seconds,
                 exit_code, history, prober, config>>

\* An iteration of main's loop starts; queries and indicators are those of
\* the iteration under way.
IterationStart ==
    /\ checker_pc = "loop"
    /\ iterations < MaxIterations
    /\ iterations' = iterations + 1
    /\ queries' = <<>>
    /\ indicators' = <<>>
    /\ checker_pc' = "query"
    /\ UNCHANGED not_checker

\* prom.lastValue(...) for the next indicator: whatever the request does,
\* the call returns.
Query ==
    /\ checker_pc = "query"
    /\ \E query \in QueryOutcomes : queries' = Append(queries, query)
    /\ checker_pc' = "save"
    /\ UNCHANGED <<not_checker, iterations, indicators>>

\* value = int(float(value)), or value = float(value) for the third
\* indicator, raises: the exception leaves main.
ConvertRaises ==
    /\ checker_pc = "save"
    /\ ConversionRaises(Len(queries), queries[Len(queries)])
    /\ checker_pc' = "raised"
    /\ UNCHANGED <<not_checker, iterations, queries, indicators>>

\* db.save_indicator(...) inserts the row and commits.
SaveIndicator ==
    /\ checker_pc = "save"
    /\ ~ConversionRaises(Len(queries), queries[Len(queries)])
    /\ indicators' =
          Append(indicators, Row(Len(queries), queries[Len(queries)]))
    /\ checker_pc' = (IF Len(queries) = 3 THEN "sleep" ELSE "query")
    /\ UNCHANGED <<not_checker, iterations, queries>>

\* db.save_indicator(...) raises (the connection to MySQL is lost): nothing
\* catches it and the exception leaves main.
SaveIndicatorRaises ==
    /\ checker_pc = "save"
    /\ ~ConversionRaises(Len(queries), queries[Len(queries)])
    /\ checker_pc' = "raised"
    /\ UNCHANGED <<not_checker, iterations, queries, indicators>>

\* time.sleep(config.scrape_interval) returns.
CheckerSleep ==
    /\ checker_pc = "sleep"
    /\ scrape_interval >= 0
    /\ checker_pc' = "loop"
    /\ UNCHANGED <<not_checker, iterations, queries, indicators>>

\* time.sleep raises ValueError for a negative interval: nothing catches
\* it and the exception leaves main.
CheckerSleepRaises ==
    /\ checker_pc = "sleep"
    /\ scrape_interval < 0
    /\ checker_pc' = "sleep_raised"
    /\ UNCHANGED <<not_checker, iterations, queries, indicators>>

\* SIGTERM: terminate() raises SystemExit(0), which lastValue's
\* `except Exception` does not catch.
CheckerTerminate ==
    /\ checker_pc \notin {"exited", "raised", "sleep_raised"}
    /\ checker_pc' = "exited"
    /\ UNCHANGED <<not_checker, iterations, queries, indicators>>

NextChecker ==
    \/ IterationStart
    \/ Query
    \/ ConvertRaises
    \/ SaveIndicator
    \/ SaveIndicatorRaises
    \/ CheckerSleep
    \/ CheckerSleepRaises
    \/ CheckerTerminate

\* app.py's main up to the first test of `while True`, for any
\* SCRAPE_INTERVAL.
InitChecker == Start /\ Configured({1}, {1}, ScrapeIntervals)

SpecChecker == InitChecker /\ [][NextChecker]_vars

\* ---------------------------------------------------------------- claims
InUnit(r) == FLe(Zero, r) /\ FLe(r, One)

\* compute_sla_interval has returned in the current cycle.
Computed == pc \in {"publish_current", "append", "publish_window", "sleep"}

\* new is old after one FIFO append of r to a window of capacity cap >= 1.
AppendedTo(old, new, r, cap) ==
    /\ Len(new) >= 1
    /\ Len(new) = (IF Len(old) < cap THEN Len(old) + 1 ELSE cap)
    /\ new[Len(new)] = r
    /\ \A i \in 1..(Len(new) - 1) : new[i] = old[Len(old) - (Len(new) - 1) + i]

\* C1: in every reachable state the window holds at most W ratios.
C1_WindowBounded == Len(window) <= window_size

\* A ratio 0.0 was appended to a full window of capacity 1 that held 1.0.
C1_Witness ==
    /\ pc = "publish_window"
    /\ window_size = 1
    /\ sla_window_ratio = One
    /\ sla_interval = Zero
    /\ window = <<Zero>>

\* C2: every ratio stored in the window lies in [0, 1].
C2_RatiosInUnit == \A i \in 1..Len(window) : InUnit(window[i])

\* C3: a call of compute_sla_interval with both totals absent returns None
\* and leaves prev_success, prev_fail and the window as they were.
C3_MissedCycleFrame ==
    [][(/\ pc = "compute"
        /\ pc' = "publish_current"
        /\ success_total = None
        /\ fail_total = None)
       => (/\ sla_interval' = None
           /\ prev_success' = prev_success
           /\ prev_fail' = prev_fail
           /\ window' = window)]_vars

\* A missed cycle has been computed in a state that stores totals (2, 1).
C3_Witness ==
    /\ pc = "publish_current"
    /\ success_total = None
    /\ fail_total = None
    /\ old_prev_success = Float(2, 1)
    /\ old_prev_fail = Float(1, 1)
    /\ prev_success = Float(2, 1)
    /\ prev_fail = Float(1, 1)
    /\ window # <<>>

\* C4 as stated: the window is mutated in a cycle exactly when
\* compute_sla_interval returned a ratio in that cycle (the step after the
\* publication of the ratio makes it the newest entry); compute_sla_interval
\* never changes the window, and a total delta <= 0 returns None and leaves
\* the window unchanged.
C4_Original ==
    [][/\ (pc = "compute" /\ pc' = "publish_current")
            => /\ window' = window
               /\ (delta_success' # None
                      /\ FLe(FAdd(delta_success', delta_fail'), Zero))
                     => sla_interval' = None
       /\ (pc = "publish_current" /\ pc' # "exited")
            => /\ window' = window
               /\ pc' = (IF sla_interval = None
                         THEN "publish_window" ELSE "append")
       /\ (pc = "append" /\ pc' = "publish_window")
            => AppendedTo(window, window', sla_interval, window_size)
       /\ window' # window => (pc = "append" /\ sla_interval # None)
      ]_vars

\* C4, amended: as C4 for a capacity W >= 1; with W = 0 the window is never
\* mutated.
C4_WindowMutation ==
    [][/\ (pc = "compute" /\ pc' = "publish_current")
            => /\ window' = window
               /\ (delta_success' # None
                      /\ FLe(FAdd(delta_success', delta_fail'), Zero))
                     => sla_interval' = None
       /\ (pc = "publish_current" /\ pc' # "exited")
            => /\ window' = window
               /\ pc' = (IF sla_interval = None
                         THEN "publish_window" ELSE "append")
       /\ (pc = "append" /\ pc' = "publish_window")
            => /\ window_size >= 1
                     => AppendedTo(window, window', sla_interval, window_size)
               /\ window_size = 0 => window' = window
       /\ window' # window => (pc = "append" /\ sla_interval # None)
      ]_vars

\* An idle interval (totals (2, 1) seen again) has left a window of one ratio
\* unchanged and published 0.0.
C4_Witness ==
    /\ pc = "publish_window"
    /\ old_prev_success = Float(2, 1)
    /\ old_prev_fail = Float(1, 1)
    /\ success_total = Float(2, 1)
    /\ fail_total = Float(1, 1)
    /\ delta_success = Zero
    /\ delta_fail = Zero
    /\ sla_interval = None
    /\ sla_current_ratio = Zero
    /\ window = <<Float(2, 3)>>

\* q is the quotient x / y (y # 0).
IsQuotient(q, x, y) ==
    /\ q[1] * y[1] * x[2] = x[1] * y[2] * q[2]
    /\ x[1] # 0 => q[3] = x[3] - y[3]

\* Both stored totals were set and not negative, and both current totals are
\* present and not below them, in the call of compute_sla_interval of this
\* cycle.
MonotoneCall ==
    /\ Computed
    /\ old_prev_success # None
    /\ old_prev_fail # None
    /\ FLe(Zero, old_prev_success)
    /\ FLe(Zero, old_prev_fail)
    /\ success_total # None
    /\ fail_total # None
    /\ FLe(old_prev_success, success_total)
    /\ FLe(old_prev_fail, fail_total)

\* C5 as stated: for stored totals (prev_s, prev_f) and present totals
\* cur_s >= prev_s, cur_f >= prev_f, compute_sla_interval returns exactly
\* ds / (ds + df), a value in [0, 1].
C5_Original ==
    MonotoneCall =>
        LET ds == FSub(success_total, old_prev_success)
            df == FSub(fail_total, old_prev_fail)
        IN /\ sla_interval # None
           /\ IsQuotient(sla_interval, ds, FAdd(ds, df))
           /\ InUnit(sla_interval)

\* C5, amended: the same for finite current totals when ds + df > 0; when
\* ds + df = 0 the call returns None.
C5_MonotoneRatio ==
    (MonotoneCall /\ Finite(success_total) /\ Finite(fail_total)) =>
        LET ds == FSub(success_total, old_prev_success)
            df == FSub(fail_total, old_prev_fail)
        IN IF FLt(Zero, FAdd(ds, df))
           THEN /\ sla_interval # None
                /\ IsQuotient(sla_interval, ds, FAdd(ds, df))
                /\ InUnit(sla_interval)
           ELSE sla_interval = None

\* From stored totals (1, 0) the totals (2, 2) have given the ratio 1/3.
C5_Witness ==
    /\ pc = "publish_current"
    /\ old_prev_success = Float(1, 1)
    /\ old_prev_fail = Zero
    /\ success_total = Float(2, 1)
    /\ fail_total = Float(2, 1)
    /\ sla_interval = Float(1, 3)

\* C6 as stated: a counter whose present current total is strictly below its
\* stored total gets the current total itself as its delta, whatever happens
\* to the other counter.
C6_Original ==
    Computed =>
        /\ (success_total # None /\ old_prev_success # None
               /\ FLt(success_total, old_prev_success))
              => delta_success = success_total
        /\ (fail_total # None /\ old_prev_fail # None
               /\ FLt(fail_total, old_prev_fail))
              => delta_fail = fail_total

\* The delta a reset gives for a current total: the total itself, 0.0 for a
\* negative one.
ResetDelta(current) == IF FLt(current, Zero) THEN Zero ELSE current

\* C6, amended: the same for a current total that is not negative; a
\* negative current total below the stored one gets the delta 0.0.
C6_ResetDelta ==
    Computed =>
        /\ (success_total # None /\ old_prev_success # None
               /\ FLt(success_total, old_prev_success))
              => delta_success = ResetDelta(success_total)
        /\ (fail_total # None /\ old_prev_fail # None
               /\ FLt(fail_total, old_prev_fail))
              => delta_fail = ResetDelta(fail_total)

\* The success counter was reset from 2 to 1 while the fail counter went on
\* from 0 to 1: the deltas are 1 and 1.
C6_Witness ==
    /\ pc = "publish_current"
    /\ old_prev_success = Float(2, 1)
    /\ old_prev_fail = Zero
    /\ success_total = Float(1, 1)
    /\ fail_total = Float(1, 1)
    /\ delta_success = Float(1, 1)
    /\ delta_fail = Float(1, 1)

\* C7: once set, a stored total is lowered by a cycle only if that cycle's
\* scrape observed a raw value of the counter below the stored total.
C7_PrevMonotone ==
    Computed =>
        /\ old_prev_success # None
              => \/ FLe(old_prev_success, prev_success)
                 \/ (success_total # None
                       /\ FLt(success_total, old_prev_success))
        /\ old_prev_fail # None
              => \/ FLe(old_prev_fail, prev_fail)
                 \/ (fail_total # None /\ FLt(fail_total, old_prev_fail))

Min(a, b) == IF a < b THEN a ELSE b

\* The last k entries of s.
LastN(s, k) == SubSeq(s, Len(s) - k + 1, Len(s))

\* C8: after n appends the window holds exactly the last min(n, W) appended
\* ratios, in insertion order.
C8_Fifo == window = LastN(appended, Min(Len(appended), window_size))

\* W = 3 and the appends [1.0, 0.5, 0.0, 1.0] have left [0.5, 0.0, 1.0],
\* whose average is 0.5.
C8_Witness ==
    /\ window_size = 3
    /\ appended = <<One, Float(1, 2), Zero, One>>
    /\ window = <<Float(1, 2), Zero, One>>
    /\ compute_window_sla(window) = Float(1, 2)

\* The sum of s[1..k], added up from the left.
RECURSIVE SumTo(_, _)
SumTo(s, k) == IF k = 0 THEN Zero ELSE FAdd(SumTo(s, k - 1), s[k])

\* m is the arithmetic mean of the non-empty sequence s: its n / d is the
\* mean of theirs, whatever the units in the last place the roundings left.
IsMean(m, s) == IsQuotient(m, SumTo(s, Len(s)), Float(Len(s), 1))

\* C9: compute_window_sla returns None for an empty window and the mean of
\* its ratios otherwise; at the end of every completed cycle sla_window_ratio
\* is that mean, or 0.0 for an empty window, and lies in [0, 1].
C9_WindowMean ==
    /\ (compute_window_sla(window) = None) <=> (window = <<>>)
    /\ window # <<>> => IsMean(compute_window_sla(window), window)
    /\ pc \in {"sleep", "loop"} =>
          /\ InUnit(sla_window_ratio)
          /\ IF window = <<>> THEN sla_window_ratio = Zero
             ELSE IsMean(sla_window_ratio, window)

\* The second cycle has ended, the first scrape was (1, 0) and the second
\* (2, 1).
EndToEnd ==
    /\ pc = "sleep"
    /\ sla_calc_total = 2
    /\ old_prev_success = Float(1, 1)
    /\ old_prev_fail = Zero
    /\ success_total = Float(2, 1)
    /\ fail_total = Float(1, 1)

\* C10 as stated: a cycle whose compute_sla_interval returns r publishes
\* sla_current_ratio = r, and the step that follows the publication appends
\* r (the newest window entry is r); one that returns None publishes 0.0 and
\* appends nothing; scrapes (1, 0) then (2, 1) give the window [1.0, 0.5] and
\* the average 0.75.
C10_Original ==
    /\ [][/\ (pc = "publish_current" /\ pc' # "exited")
               => IF sla_interval # None
                  THEN /\ sla_current_ratio' = sla_interval
                       /\ pc' = "append"
                  ELSE /\ sla_current_ratio' = Zero
                       /\ window' = window
                       /\ pc' = "publish_window"
          /\ pc = "append"
               => /\ pc' = "publish_window"
                  /\ sla_current_ratio' = sla_interval
                  /\ AppendedTo(window, window', sla_interval, window_size)
         ]_vars
    /\ [](EndToEnd => /\ window = <<One, Float(1, 2)>>
                       /\ sla_current_ratio = Float(1, 2)
                       /\ sla_window_ratio = Float(3, 4))

\* C10, amended: a cycle whose compute_sla_interval returns r publishes
\* sla_current_ratio = r; the step that follows appends r for a capacity
\* W >= 1 and leaves the window empty for W = 0, unless it is the delivery
\* of a termination signal, which leaves r published and the window as it
\* was. A cycle that returns None publishes 0.0 and appends nothing. Once
\* the append is done the gauge is r and, for W >= 1, so is the newest entry
\* of the window; with W >= 2 the two-cycle example gives [1.0, 0.5] and
\* 0.75.
C10_PublishAndAppend ==
    /\ [][/\ (pc = "publish_current" /\ pc' # "exited")
               => IF sla_interval # None
                  THEN /\ sla_current_ratio' = sla_interval
                       /\ window' = window
                       /\ pc' = "append"
                  ELSE /\ sla_current_ratio' = Zero
                       /\ window' = window
                       /\ pc' = "publish_window"
          /\ (pc = "append" /\ pc' # "exited")
               => /\ pc' = "publish_window"
                  /\ sla_current_ratio' = sla_interval
                  /\ IF window_size >= 1
                     THEN AppendedTo(window, window', sla_interval,
                                     window_size)
                     ELSE window' = <<>>
          /\ (pc = "append" /\ pc' = "exited")
               => /\ sla_current_ratio' = sla_interval
                  /\ window' = window
         ]_vars
    /\ [](pc \in {"publish_window", "sleep"}
            => IF sla_interval = None
               THEN sla_current_ratio = Zero
               ELSE /\ sla_current_ratio = sla_interval
                    /\ window_size >= 1
                          => /\ window # <<>>
                             /\ window[Len(window)] = sla_current_ratio)
    /\ []((EndToEnd /\ window_size >= 2)
            => /\ window = <<One, Float(1, 2)>>
               /\ sla_current_ratio = Float(1, 2)
               /\ sla_window_ratio = Float(3, 4))

\* The two-cycle example has run on a window of capacity 2.
C10_Witness ==
    /\ EndToEnd
    /\ window_size = 2
    /\ window = <<One, Float(1, 2)>>
    /\ sla_current_ratio = Float(1, 2)
    /\ sla_window_ratio = Float(3, 4)

\* C11: sla_calculation_total goes up by exactly one in the step that starts
\* a cycle and is changed by no other step, whatever the cycle's outcome.
C11_CalcTotal ==
    [][sla_calc_total' =
         (IF pc = "loop" /\ pc' = "fetch"
          THEN sla_calc_total + 1 ELSE sla_calc_total)]_vars

\* A third cycle, whose fetch failed, has ended after a cycle that appended:
\* the counter is 3.
C11_Witness ==
    /\ pc = "sleep"
    /\ sla_calc_total = 3
    /\ fetch_outcome = "error"
    /\ sla_interval = None
    /\ window # <<>>

\* C12: every call of fetch_prober_metrics returns to main (a termination
\* signal aside): the request ends with the duration measured and the
\* duration gauge set to it, and the call then returns that duration, with
\* both totals None after a transport error and after a status that is not
\* 200; prev_success, prev_fail and the window are unchanged by the call.
C12_FetchReturns ==
    [][/\ (pc = "fetch" /\ pc' # "exited")
            => /\ pc' = "fetch_return"
               /\ duration' \in Durations
               /\ sla_prober_request_duration_seconds' = duration'
       /\ (pc = "fetch_return" /\ pc' # "exited")
            => /\ pc' = "compute"
               /\ req_duration' = duration
               /\ sla_prober_request_duration_seconds' = req_duration'
               /\ fetch_outcome \in {"error", "non200"}
                     => (success_total' = None /\ fail_total' = None)
       /\ pc \in {"fetch", "fetch_return"}
            => UNCHANGED <<prev_success, prev_fail, window>>
      ]_vars

\* C13: the process never leaves the loop other than by a termination
\* signal; whatever the fetch returned, the cycle reaches its sleep with both
\* gauges published (0.0 where undefined), and the next cycle is started
\* (up to MaxCycles cycles) unless a termination signal comes.
C13_LoopGoesOn ==
    /\ [](pc \in {"loop", "fetch", "fetch_return", "compute",
                  "publish_current", "append", "publish_window", "sleep",
                  "exited"})
    /\ [](pc = "sleep"
            => /\ sla_current_ratio =
                    (IF sla_interval = None THEN Zero ELSE sla_interval)
               /\ InUnit(sla_window_ratio))
    /\ \A k \in 1..MaxCycles :
          (pc = "compute" /\ sla_calc_total = k)
             ~> ((pc = "sleep" /\ sla_calc_total = k) \/ pc = "exited")
    /\ \A k \in 1..(MaxCycles - 1) :
          (pc = "compute" /\ sla_calc_total = k)
             ~> ((pc = "fetch" /\ sla_calc_total = k + 1) \/ pc = "exited")

\* C14: a process that has received the termination signal has exited with
\* code 0 and takes no further step (no fetch, no increment of
\* sla_calculation_total); a running process has no exit code, and the only
\* step that ends the loop is the delivery of the signal.
C14_Termination ==
    /\ [](pc = "exited" <=> exit_code = <<0>>)
    /\ [](pc # "exited" <=> exit_code = None)
    /\ [][pc = "exited" => UNCHANGED vars]_vars
    /\ [][(pc # "exited" /\ pc' = "exited") => Terminate]_vars
    /\ [][LoopStep => (pc' # "exited" /\ exit_code' = None)]_vars

\* C15: after a call of compute_sla_interval with at least one total present,
\* prev_success and prev_fail are the totals of that call, 0.0 for an absent
\* one, whatever the call returned.
C15_PrevIsLastSeen ==
    (Computed /\ ~(success_total = None /\ fail_total = None))
    => /\ prev_success = (IF success_total # None THEN success_total ELSE Zero)
       /\ prev_fail = (IF fail_total # None THEN fail_total ELSE Zero)

\* Both counters reset from 2 to 0: both deltas are 0, the call returns None,
\* and the stored totals are the new ones.
C15_Witness ==
    /\ pc = "publish_current"
    /\ old_prev_success = Float(2, 1)
    /\ old_prev_fail = Float(2, 1)
    /\ success_total = Zero
    /\ fail_total = Zero
    /\ sla_interval = None
    /\ prev_success = Zero
    /\ prev_fail = Zero

\* The value returned and the totals stored by a call of compute_sla_interval.
Outcome(call) == <<call.ret, call.prev_success, call.prev_fail>>

\* compute_sla_interval with one total absent returns and stores what it does
\* with 0.0 in its place: for every pair of stored totals and every present
\* sibling, in both positions.
AbsentIsZero ==
    \A ps \in OptTotals, pf \in OptTotals, t \in Totals :
        /\ Outcome(compute_sla_interval(None, t, ps, pf))
             = Outcome(compute_sla_interval(Zero, t, ps, pf))
        /\ Outcome(compute_sla_interval(t, None, ps, pf))
             = Outcome(compute_sla_interval(t, Zero, ps, pf))

\* C16: with exactly one total absent, compute_sla_interval returns and stores
\* what it does with 0.0 in the place of the absent total: for every pair of
\* stored totals (the stored totals of every reachable state are such a pair)
\* and every present sibling, and for the call main made in the current
\* cycle.
C16_AbsentIsZero ==
    /\ AbsentIsZero
    /\ prev_success \in OptTotals
    /\ prev_fail \in OptTotals
    /\ (Computed /\ success_total = None /\ fail_total # None)
       => <<sla_interval, prev_success, prev_fail>>
            = Outcome(compute_sla_interval(Zero, fail_total,
                                           old_prev_success, old_prev_fail))
    /\ (Computed /\ success_total # None /\ fail_total = None)
       => <<sla_interval, prev_success, prev_fail>>
            = Outcome(compute_sla_interval(success_total, Zero,
                                           old_prev_success, old_prev_fail))

\* The success metric vanished from the body after a scrape that had it at 2.
C16_Witness ==
    /\ pc = "publish_current"
    /\ success_total = None
    /\ fail_total = Float(2, 1)
    /\ old_prev_success = Float(2, 1)
    /\ old_prev_fail = Float(1, 1)
    /\ prev_success = Zero
    /\ sla_interval = Zero

\* C17 as stated: over a run of calls in which every scrape has both totals
\* present and not decreasing, or both absent, the success deltas computed so
\* far add up to the last success total seen, and the fail deltas to the last
\* fail total (to 0.0 while none has been seen).
C17_Original ==
    monotonic
    => /\ sum_delta_success = Real(Counted(last_success))
       /\ sum_delta_fail = Real(Counted(last_fail))

\* C17, amended: the same over runs whose totals are whole numbers from 0 to
\* 2^53.
C17_DeltasAddUp ==
    (monotonic /\ in_range)
    => /\ sum_delta_success = Real(Counted(last_success))
       /\ sum_delta_fail = Real(Counted(last_fail))

\* Scrapes (1, 1), missed, (2, 1): deltas 1 + 1 and 1 + 0.
C17_Witness ==
    /\ n_calls = 3
    /\ monotonic
    /\ in_range
    /\ old_prev_success = Float(1, 1)
    /\ old_prev_fail = Float(1, 1)
    /\ last_success = Float(2, 1)
    /\ last_fail = Float(1, 1)
    /\ sum_delta_success = Real(Float(2, 1))
    /\ sum_delta_fail = Real(Float(1, 1))
    /\ delta_fail = Zero

\* C18 as stated: a call given a counter that the call before it lacked,
\* while that call had the sibling, starts from a stored total of 0.0 and
\* computes the whole value of the counter as its delta.
C18_Original ==
    [][(n_calls' = n_calls + 1 /\ n_calls >= 1)
       => /\ (success_total = None /\ fail_total # None
               /\ success_total' # None)
              => (old_prev_success' = Zero /\ delta_success' = success_total')
          /\ (fail_total = None /\ success_total # None /\ fail_total' # None)
              => (old_prev_fail' = Zero /\ delta_fail' = fail_total')]_vars

\* C18, amended: the same for a value that is not negative; a negative value
\* gets the delta 0.0.
C18_FullValueAfterAbsence ==
    [][(n_calls' = n_calls + 1 /\ n_calls >= 1)
       => /\ (success_total = None /\ fail_total # None
               /\ success_total' # None)
              => /\ old_prev_success' = Zero
                 /\ delta_success' = ResetDelta(success_total')
          /\ (fail_total = None /\ success_total # None /\ fail_total' # None)
              => /\ old_prev_fail' = Zero
                 /\ delta_fail' = ResetDelta(fail_total')]_vars

\* Scrapes (2, 1), (absent, 1), (2, 1): the success deltas are 2, 0 and 2, four
\* events counted where the counter shows two.
C18_Witness ==
    /\ n_calls = 3
    /\ old_prev_success = Zero
    /\ success_total = Float(2, 1)
    /\ delta_success = Float(2, 1)
    /\ last_success = Float(2, 1)
    /\ sum_delta_success = Real(Float(4, 1))
    /\ sum_delta_fail = Real(Float(1, 1))
    /\ sla_interval = One

\* C19: every probe returns, and between probes the run counter is the sum
\* of the success counter and the failure counter (each probe has counted
\* one run, once as a success or once as a failure).
C19_CountersPartition ==
    /\ prober_pc # "raised"
    /\ prober_pc \in {"sleep", "loop"}
          => prober_create_user_scenario_success_total
               + prober_create_user_scenario_success_fail_total
             = prober_create_user_scenario_total

\* A query that failed or came back empty.
Defaulted(query) == query.kind \in {"error", "empty"}

\* The rows inserted whose query failed or came back empty carry the default
\* and are flagged bad.
FailSafeRows ==
    \A i \in 1..Len(indicators) :
        Defaulted(queries[i])
        => /\ indicators[i].is_bad
           /\ indicators[i].value = Default(i)

\* C20: no iteration of the checker raises, every iteration that has reached
\* its sleep has inserted three rows, and the row of an indicator whose query
\* failed or came back empty carries the default and is flagged bad.
C20_ThreeFailSafeRows ==
    /\ checker_pc # "raised"
    /\ checker_pc = "sleep" => Len(indicators) = 3
    /\ FailSafeRows

====
